---------------------------- MODULE Spec2Model ----------------------------
(***************************************************************************)
(* The step-playback state machine of the VirtualDOMDemo component         *)
(* (src/src/App.jsx).                                                      *)
(*                                                                         *)
(* The React state of the component is the record St; every handler is an  *)
(* operator from the state it is called in to the state React commits for  *)
(* it (all setState calls of one handler are batched into one render).     *)
(* Commit installs that state and then runs the two useEffect hooks.       *)
(*                                                                         *)
(* Every click handler belongs to the latest committed render, so it reads *)
(* the current state; the timer callback keeps the pendingItems of the     *)
(* render that scheduled it.  The updater functions passed to setStep only *)
(* repeat idempotent setState calls if React invokes them twice.           *)
(*                                                                         *)
(* Two specifications share the handlers:                                  *)
(*   Spec       the page as a user drives it: a button delivers a click    *)
(*              only while its `disabled` attribute is false;              *)
(*   SpecCalls  the handlers called directly, in any state and with any    *)
(*              id, as the contract of the functions themselves.           *)
(* SpecAuto is the page left to its timer, SpecResume the page with every  *)
(* button and a timer that fires, and SpecDiff applies the pure function   *)
(* getChangedIds to a pair of lists.                                       *)
(***************************************************************************)
EXTENDS Integers, Sequences, FiniteSets, TLC

VARIABLES items, pendingItems, showDiff, step, renderPhase, commitPhase,
          diff, isAutoMode, isProcessActive,   \* useState cells
          timer,                               \* the pending setTimeout
          now,                                 \* the value of Date.now()
          op, calls, startItems, startDiff,    \* history (observers only)
          watcherRan,                          \* the step watcher's last test
          startOp, before,                     \* the last start and the cycle before it
          inPrev, inNext, outChanged           \* one application of getChangedIds

reactVars == <<items, pendingItems, showDiff, step, renderPhase, commitPhase,
               diff, isAutoMode, isProcessActive>>
vars == <<items, pendingItems, showDiff, step, renderPhase, commitPhase,
          diff, isAutoMode, isProcessActive, timer, now, op, calls,
          startItems, startDiff, watcherRan, startOp, before,
          inPrev, inNext, outChanged>>
callVars == <<inPrev, inNext, outChanged>>

---------------------------------------------------------------------------
(* Bounds *)

\* addItem is not offered once the list holds MaxLen records
MaxLen == 3
\* the clock stops at MaxNow
MaxNow == 5
\* a direct call of toggleItem or removeItem names an id in 1..MaxId
MaxId == 1
\* the lists handed to getChangedIds hold records with ids in 1..MaxArgId
MaxArgId == 3

---------------------------------------------------------------------------
(* Values *)

MAX_STEP == 5

\* JavaScript null and a present value; an empty array is a present value
Null == <<>>
Some(x) == <<x>>
\* truthiness of a value that is null or an array: every array is truthy,
\* the empty one too (diff.prev and diff.next are always arrays)
Truthy(o) == o # Null

Item(i, n, sel) == [id |-> i, name |-> n, selected |-> sel]

InitialItems ==
  << Item(1, "Apple", FALSE), Item(2, "Banana", FALSE), Item(3, "Cherry", FALSE) >>

\* `Item ${items.length + 1}`
ItemName(n) ==
  CASE n = 1 -> "Item 1" [] n = 2 -> "Item 2" [] n = 3 -> "Item 3"
    [] n = 4 -> "Item 4" [] n = 5 -> "Item 5" [] n = 6 -> "Item 6"
    [] OTHER -> "Item n"

Max(a, b) == IF a >= b THEN a ELSE b

IdSeq(list) == [ i \in 1..Len(list) |-> list[i].id ]

\* new Map(list.map(item => [item.id, item])).has(id)
MapHas(list, id) == \E i \in 1..Len(list) : list[i].id = id
\* new Map(...).get(id): a later entry with the same key replaces an earlier one
MapGet(list, id) ==
  list[CHOOSE i \in 1..Len(list) :
         /\ list[i].id = id
         /\ \A j \in (i+1)..Len(list) : list[j].id # id]

\* variant of getChangedIds: the loop over prev (removed ids) is missing
getChangedIdsNoRemoved(prev, next) ==
  LET AddedOrToggled(item) ==
        \/ ~MapHas(prev, item.id)
        \/ /\ MapHas(prev, item.id)
           /\ MapGet(prev, item.id).selected # item.selected
  IN IdSeq(SelectSeq(next, AddedOrToggled))

getChangedIds(prev, next) ==
  LET AddedOrToggled(item) ==
        \/ ~MapHas(prev, item.id)
        \/ /\ MapHas(prev, item.id)
           /\ MapGet(prev, item.id).selected # item.selected
      Removed(item) == ~MapHas(next, item.id)
  IN IdSeq(SelectSeq(next, AddedOrToggled)) \o IdSeq(SelectSeq(prev, Removed))

\* prev.some(item => item.id === id)
SomeHasId(list, id) == \E i \in 1..Len(list) : list[i].id = id

\* variant of getItemChangeType: the 'removed' test is missing
getItemChangeTypeNoRemoved(id, prev, next) ==
  LET isInPrev == SomeHasId(prev, id)
      isInNext == SomeHasId(next, id)
  IN IF ~isInPrev /\ isInNext THEN Some("added")
     ELSE IF isInPrev /\ isInNext THEN Some("changed")
     ELSE Null

getItemChangeType(id, prev, next) ==
  LET isInPrev == SomeHasId(prev, id)
      isInNext == SomeHasId(next, id)
  IN IF ~isInPrev /\ isInNext THEN Some("added")
     ELSE IF isInPrev /\ ~isInNext THEN Some("removed")
     ELSE IF isInPrev /\ isInNext THEN Some("changed")
     ELSE Null

\* highlight={diff.changedIds.filter(id => list.some(item => item.id === id))}
Highlight(d, list) ==
  LET Present(id) == SomeHasId(list, id)
  IN SelectSeq(d.changedIds, Present)

---------------------------------------------------------------------------
(* The React state and the handlers *)

St == [items |-> items, pendingItems |-> pendingItems, showDiff |-> showDiff,
       step |-> step, renderPhase |-> renderPhase, commitPhase |-> commitPhase,
       diff |-> diff, isAutoMode |-> isAutoMode,
       isProcessActive |-> isProcessActive]

\* variant of startProcess: the ChangeSet of the previous cycle is kept
startProcessKeepsDiff(s, diffObj) ==
  [s EXCEPT !.showDiff = TRUE, !.step = 1, !.renderPhase = TRUE,
            !.commitPhase = FALSE, !.isProcessActive = TRUE,
            !.pendingItems = Some(diffObj.next)]

startProcess(s, diffObj) ==
  [s EXCEPT !.diff = diffObj,
            !.showDiff = TRUE,
            !.step = 1,
            !.renderPhase = TRUE,
            !.commitPhase = FALSE,
            !.isProcessActive = TRUE,
            !.pendingItems = Some(diffObj.next)]

\* variants of resetProcess: isProcessActive left set; commitPhase left set;
\* List reverted to the ChangeSet's previous list
resetProcessKeepsActive(s) ==
  [s EXCEPT !.showDiff = FALSE, !.commitPhase = FALSE, !.renderPhase = FALSE,
            !.step = 0, !.pendingItems = Null]
resetProcessKeepsCommit(s) ==
  [s EXCEPT !.showDiff = FALSE, !.renderPhase = FALSE, !.step = 0,
            !.isProcessActive = FALSE, !.pendingItems = Null]
resetProcessReverts(s) ==
  [s EXCEPT !.showDiff = FALSE, !.commitPhase = FALSE, !.renderPhase = FALSE,
            !.step = 0, !.isProcessActive = FALSE, !.pendingItems = Null,
            !.items = s.diff.prev]

\* variant of resetProcess: a pending list is applied to List
resetProcessCommits(s) ==
  [s EXCEPT !.showDiff = FALSE, !.commitPhase = FALSE, !.renderPhase = FALSE,
            !.step = 0, !.isProcessActive = FALSE, !.pendingItems = Null,
            !.items = IF Truthy(s.pendingItems) THEN s.pendingItems[1] ELSE @]

resetProcess(s) ==
  [s EXCEPT !.showDiff = FALSE,
            !.commitPhase = FALSE,
            !.renderPhase = FALSE,
            !.step = 0,
            !.isProcessActive = FALSE,
            !.pendingItems = Null]

\* variants of the commit branch: List not written; pendingItems not cleared
CommitPendingSkipsItems(s, pend) ==
  [s EXCEPT !.renderPhase = FALSE, !.commitPhase = TRUE, !.pendingItems = Null]
CommitPendingKeepsPending(s, pend) ==
  [s EXCEPT !.renderPhase = FALSE, !.commitPhase = TRUE,
            !.items = IF Truthy(pend) THEN pend[1] ELSE @]

\* variant of the commit branch: an empty pendingItems counts as nothing to commit
CommitPendingSkipsEmpty(s, pend) ==
  [s EXCEPT !.renderPhase = FALSE, !.commitPhase = TRUE,
            !.items = IF Truthy(pend) /\ pend[1] # <<>> THEN pend[1] ELSE @,
            !.pendingItems = Null]

\* the commit branch of nextStep (next === 4); pend is the pendingItems of
\* the render whose nextStep is running
CommitPending(s, pend) ==
  [s EXCEPT !.renderPhase = FALSE,
            !.commitPhase = TRUE,
            !.items = IF Truthy(pend) THEN pend[1] ELSE @,
            !.pendingItems = Null]

\* variant of nextStep: the overflow branch returns 0 without resetProcess()
nextStepNoReset(s, pend) ==
  LET next == s.step + 1
      s4 == IF next = 4 THEN CommitPending(s, pend) ELSE s
  IN IF next > MAX_STEP
       THEN [s4 EXCEPT !.step = 0]
       ELSE [s4 EXCEPT !.step = next]

\* variant of nextStep: no overflow branch, step 6 is left to the step watcher
nextStepOverflows(s, pend) ==
  LET next == s.step + 1
      s4 == IF next = 4 THEN CommitPending(s, pend) ELSE s
  IN [s4 EXCEPT !.step = next]

\* variant of nextStep: the commit branch is taken one step early
nextStepCommitsAtThree(s, pend) ==
  LET next == s.step + 1
      s4 == IF next = 3 THEN CommitPending(s, pend) ELSE s
  IN IF next > MAX_STEP
       THEN [resetProcess(s4) EXCEPT !.step = 0]
       ELSE [s4 EXCEPT !.step = next]

nextStep(s, pend) ==
  LET next == s.step + 1
      s4 == IF next = 4 THEN CommitPending(s, pend) ELSE s
  IN IF next > MAX_STEP
       THEN [resetProcess(s4) EXCEPT !.step = 0]
       ELSE [s4 EXCEPT !.step = next]

\* variants of the rollback branch: List not restored; pendingItems not restored
RollbackKeepsItems(s) ==
  [s EXCEPT !.commitPhase = FALSE, !.renderPhase = TRUE,
            !.pendingItems = Some(s.diff.next)]
RollbackKeepsPending(s) ==
  [s EXCEPT !.commitPhase = FALSE, !.renderPhase = TRUE,
            !.items = s.diff.prev]

\* variant of the rollback branch: pendingItems is set to the previous list
RollbackPendsPrevious(s) ==
  LET r == [s EXCEPT !.commitPhase = FALSE, !.renderPhase = TRUE]
  IN IF Truthy(Some(s.diff.prev)) /\ Truthy(Some(s.diff.next))
       THEN [r EXCEPT !.items = s.diff.prev,
                      !.pendingItems = Some(s.diff.prev)]
       ELSE r

\* variant of the rollback branch: commitPhase is left on
RollbackKeepsCommitPhase(s) ==
  LET r == [s EXCEPT !.renderPhase = TRUE]
  IN IF Truthy(Some(s.diff.prev)) /\ Truthy(Some(s.diff.next))
       THEN [r EXCEPT !.items = s.diff.prev,
                      !.pendingItems = Some(s.diff.next)]
       ELSE r

\* the rollback branch of previousStep (prev >= 4 && next <= 3)
Rollback(s) ==
  LET r == [s EXCEPT !.commitPhase = FALSE, !.renderPhase = TRUE]
  IN IF Truthy(Some(s.diff.prev)) /\ Truthy(Some(s.diff.next))
       THEN [r EXCEPT !.items = s.diff.prev,
                      !.pendingItems = Some(s.diff.next)]
       ELSE r

\* variant of the clamp: no Math.max
PreviousTargetUnclamped(prev) == prev - 1

PreviousTarget(prev) == Max(1, prev - 1)

\* variant of previousStep: every retreat from step 4 or 5 rolls back
previousStepRollsBackAtFive(s) ==
  LET next == PreviousTarget(s.step)
      r == IF s.step >= 4 THEN Rollback(s) ELSE s
  IN [r EXCEPT !.step = next]

previousStep(s) ==
  LET next == PreviousTarget(s.step)
      r == IF s.step >= 4 /\ next <= 3 THEN Rollback(s) ELSE s
  IN [r EXCEPT !.step = next]

\* variant of the guard: never busy
BusyNever(s) == FALSE

\* `if (isProcessActive) return;` of toggleItem, addItem and removeItem
Busy(s) == s.isProcessActive

DiffOf(prev, next) ==
  [prev |-> prev, next |-> next, changedIds |-> getChangedIds(prev, next)]

\* variant of the map in toggleItem: selected is set, not flipped
ToggledItemsSelects(list, id) ==
  [ i \in 1..Len(list) |->
      IF list[i].id = id THEN [list[i] EXCEPT !.selected = TRUE] ELSE list[i] ]

ToggledItems(list, id) ==
  [ i \in 1..Len(list) |->
      IF list[i].id = id
        THEN [list[i] EXCEPT !.selected = ~list[i].selected]
        ELSE list[i] ]

\* variant of toggleItem: a call with an id that List does not hold returns
toggleItemSkipsAbsent(s, id) ==
  IF Busy(s) \/ ~MapHas(s.items, id) THEN s
  ELSE startProcess(s, DiffOf(s.items, ToggledItems(s.items, id)))

\* variant of toggleItem: changedIds is the id it was called with
toggleItemNamesId(s, id) ==
  IF Busy(s) THEN s
  ELSE startProcess(s, [prev |-> s.items,
                        next |-> ToggledItems(s.items, id),
                        changedIds |-> <<id>>])

\* variant of toggleItem: next is computed from the stored ChangeSet's
\* previous list instead of List
toggleItemFromStoredPrev(s, id) ==
  IF Busy(s) THEN s
  ELSE startProcess(s, DiffOf(s.items, ToggledItems(s.diff.prev, id)))

toggleItem(s, id) ==
  IF Busy(s) THEN s
  ELSE startProcess(s, DiffOf(s.items, ToggledItems(s.items, id)))

addItem(s, dateNow) ==
  IF Busy(s) THEN s
  ELSE LET newItem == Item(dateNow, ItemName(Len(s.items) + 1), FALSE)
       IN startProcess(s, DiffOf(s.items, Append(s.items, newItem)))

removeItem(s, id) ==
  IF Busy(s) THEN s
  ELSE LET Keep(item) == item.id # id
       IN startProcess(s, DiffOf(s.items, SelectSeq(s.items, Keep)))

\* variant of the mode switch: it also puts an active cycle back to step 1
toggleAutoModeRestarts(s) ==
  [s EXCEPT !.isAutoMode = ~s.isAutoMode,
            !.step = IF s.isProcessActive THEN 1 ELSE @]

toggleAutoMode(s) == [s EXCEPT !.isAutoMode = ~s.isAutoMode]

---------------------------------------------------------------------------
(* Effects *)

\* useEffect(() => { if (step > MAX_STEP) resetProcess(); }, [step])
\* the watcher's condition, in the render the handler's updates produce
WatcherFires(s) == s.step > MAX_STEP

StepWatcher(s) == IF WatcherFires(s) THEN resetProcess(s) ELSE s

\* variant of the auto-mode effect: step is missing from its dependencies
AutoEffectIgnoresStep(old, new, tm) ==
  IF \/ old.isAutoMode # new.isAutoMode
     \/ old.isProcessActive # new.isProcessActive
    THEN IF ~new.isProcessActive \/ ~new.isAutoMode THEN Null
         ELSE IF new.step = 0 \/ new.step > MAX_STEP THEN Null
         ELSE Some([pendingItems |-> new.pendingItems, step |-> new.step])
    ELSE tm

\* variant of the auto-mode effect: no cleanup function, a timer is never cleared
AutoEffectNoCleanup(old, new, tm) ==
  IF /\ \/ old.step # new.step
        \/ old.isAutoMode # new.isAutoMode
        \/ old.isProcessActive # new.isProcessActive
     /\ new.isProcessActive /\ new.isAutoMode
     /\ new.step # 0 /\ new.step <= MAX_STEP
    THEN Some([pendingItems |-> new.pendingItems, step |-> new.step])
    ELSE tm

\* variant of the auto-mode effect: nothing is scheduled at the last step
AutoEffectStopsAtLast(old, new, tm) ==
  IF \/ old.step # new.step
     \/ old.isAutoMode # new.isAutoMode
     \/ old.isProcessActive # new.isProcessActive
    THEN IF ~new.isProcessActive \/ ~new.isAutoMode THEN Null
         ELSE IF new.step = 0 \/ new.step >= MAX_STEP THEN Null
         ELSE Some([pendingItems |-> new.pendingItems, step |-> new.step])
    ELSE tm

\* variant of the auto-mode effect: isAutoMode is missing from its dependencies
AutoEffectIgnoresMode(old, new, tm) ==
  IF \/ old.step # new.step
     \/ old.isProcessActive # new.isProcessActive
    THEN IF ~new.isProcessActive \/ ~new.isAutoMode THEN Null
         ELSE IF new.step = 0 \/ new.step > MAX_STEP THEN Null
         ELSE Some([pendingItems |-> new.pendingItems, step |-> new.step])
    ELSE tm

\* the auto-mode useEffect: when a dependency changed, the cleanup clears the
\* outstanding timer and the effect runs again in the new render; tm is the
\* timer left by the event itself (none once it has fired).  A timer holds
\* the render it was scheduled in: that render's pendingItems, which its
\* nextStep reads, and that render's step
AutoEffect(old, new, tm) ==
  IF \/ old.step # new.step
     \/ old.isAutoMode # new.isAutoMode
     \/ old.isProcessActive # new.isProcessActive
    THEN IF ~new.isProcessActive \/ ~new.isAutoMode THEN Null
         ELSE IF new.step = 0 \/ new.step > MAX_STEP THEN Null
         ELSE Some([pendingItems |-> new.pendingItems, step |-> new.step])
    ELSE tm

---------------------------------------------------------------------------
(* History *)

Off == <<"off">>
FullCycle == <<"nextStep", "nextStep", "nextStep", "nextStep", "nextStep">>
RoundTrip == <<"nextStep", "nextStep", "nextStep",
               "previousStep", "previousStep", "previousStep">>
RetreatAtOne == <<"previousStep">>
RetreatFromEffects == <<"nextStep", "nextStep", "nextStep", "nextStep",
                        "previousStep", "previousStep">>
Recross == <<"nextStep", "nextStep", "nextStep", "previousStep", "nextStep",
             "previousStep", "nextStep">>
Resume == <<"nextStep", "nextStep", "nextStep", "previousStep",
            "setIsAutoMode", "nextStep", "nextStep", "nextStep">>
Scripts == {FullCycle, RoundTrip, RetreatAtOne, RetreatFromEffects, Recross,
            Resume}

IsPrefix(t, s) == Len(t) <= Len(s) /\ \A i \in 1..Len(t) : t[i] = s[i]

\* op is the last event; calls is the sequence of handler calls made since
\* the last start, kept while it follows a script; startItems and startDiff
\* are List before the last start and the ChangeSet that start was given;
\* watcherRan tells whether the step watcher called resetProcess in the last
\* event; startOp is the handler that made the last start; before is
\* present in a cycle that toggleItem started right after a toggleItem cycle
\* that ran to its end, and holds that earlier cycle's startItems and
\* ChangeSet
Track(t) == IF \E s \in Scripts : IsPrefix(t, s) THEN t ELSE Off

\* the last cycle was started by handler o and ended by its fifth advance,
\* and no handler has been called since
RanToEnd(o) == startOp = o /\ calls = FullCycle

\* a mutation handler that was not busy has performed startProcess
Started(o) == o \in {"toggleItem", "addItem", "removeItem"} /\ ~isProcessActive

---------------------------------------------------------------------------
(* One event: the handler's batched state, then the effects *)

Commit(s, tm, o, callName) ==
  LET w == StepWatcher(s)
  IN /\ items' = w.items
     /\ pendingItems' = w.pendingItems
     /\ showDiff' = w.showDiff
     /\ step' = w.step
     /\ renderPhase' = w.renderPhase
     /\ commitPhase' = w.commitPhase
     /\ diff' = w.diff
     /\ isAutoMode' = w.isAutoMode
     /\ isProcessActive' = w.isProcessActive
     /\ timer' = AutoEffect(St, w, tm)
     /\ op' = o
     /\ calls' = IF Started(o) THEN <<>>
                 ELSE IF calls = Off THEN Off
                 ELSE Track(Append(calls, callName))
     /\ startItems' = IF Started(o) THEN items ELSE startItems
     /\ startDiff' = IF Started(o) THEN w.diff ELSE startDiff
     /\ watcherRan' = WatcherFires(s)
     /\ startOp' = IF Started(o) THEN o ELSE startOp
     /\ before' = IF ~Started(o) THEN before
                  ELSE IF o = "toggleItem" /\ RanToEnd("toggleItem")
                    THEN Some([items |-> startItems, diff |-> startDiff])
                  ELSE Null
     /\ UNCHANGED <<now, callVars>>

InitState ==
  /\ items = InitialItems
  /\ pendingItems = Null
  /\ showDiff = FALSE
  /\ step = 0
  /\ renderPhase = FALSE
  /\ commitPhase = FALSE
  /\ diff = [prev |-> InitialItems, next |-> InitialItems, changedIds |-> <<>>]
  /\ isAutoMode = TRUE
  /\ isProcessActive = FALSE
  /\ timer = Null
  /\ now = Len(InitialItems) + 1
  /\ op = "init"
  /\ calls = Off
  /\ startItems = InitialItems
  /\ startDiff = [prev |-> InitialItems, next |-> InitialItems, changedIds |-> <<>>]
  /\ watcherRan = FALSE
  /\ startOp = "init"
  /\ before = Null

Init ==
  /\ InitState
  /\ inPrev = <<>> /\ inNext = <<>> /\ outChanged = Null

\* time passes
Tick ==
  /\ now < MaxNow
  /\ now' = now + 1
  /\ op' = "tick"
  /\ UNCHANGED <<reactVars, timer, calls, startItems, startDiff, watcherRan,
                 startOp, before, callVars>>

\* setTimeout(() => nextStep(), 800) fires: nextStep of the render that
\* scheduled it
TimerFires ==
  /\ timer # Null
  /\ Commit(nextStep(St, timer[1].pendingItems), Null, "timer", "nextStep")

\* onClick={() => setIsAutoMode((prev) => !prev)}
ClickMode == Commit(toggleAutoMode(St), timer, "setIsAutoMode", "setIsAutoMode")

(* The page: buttons with their disabled attributes *)

ToggleDisabled == isProcessActive
AddDisabled == isProcessActive
RemoveDisabled == Len(items) = 0 \/ isProcessActive
\* variant of the Next Step guard: only the mode and the overflow test
NextDisabledWhenAuto == isAutoMode \/ step > MAX_STEP

NextDisabled == ~isProcessActive \/ isAutoMode \/ step = 0 \/ step > MAX_STEP
PreviousDisabled == ~isProcessActive \/ isAutoMode \/ step <= 1
ResetDisabled == ~isProcessActive

\* onClick={() => toggleItem(1)}
AppleId == 1

ClickToggleApple ==
  /\ ~ToggleDisabled
  /\ Commit(toggleItem(St, AppleId), timer, "toggleItem", "toggleItem")

ClickAdd ==
  /\ ~AddDisabled
  /\ Len(items) < MaxLen
  /\ Commit(addItem(St, now), timer, "addItem", "addItem")

ClickRemoveLast ==
  /\ ~RemoveDisabled
  /\ Commit(removeItem(St, items[Len(items)].id), timer, "removeItem", "removeItem")

ClickNext ==
  /\ ~NextDisabled
  /\ Commit(nextStep(St, pendingItems), timer, "nextStep", "nextStep")

ClickPrevious ==
  /\ ~PreviousDisabled
  /\ Commit(previousStep(St), timer, "previousStep", "previousStep")

ClickReset ==
  /\ ~ResetDisabled
  /\ Commit(resetProcess(St), timer, "resetProcess", "resetProcess")

Next ==
  \/ Tick
  \/ TimerFires
  \/ ClickMode
  \/ ClickToggleApple
  \/ ClickAdd
  \/ ClickRemoveLast
  \/ ClickNext
  \/ ClickPrevious
  \/ ClickReset

Spec == Init /\ [][Next]_vars

(* The page in auto mode with nobody touching the stepper: the only events  *)
(* are the three mutation buttons and the timer.  A timer that setTimeout   *)
(* has scheduled and nothing has cleared does fire.                         *)

NextAuto ==
  \/ Tick
  \/ TimerFires
  \/ ClickToggleApple
  \/ ClickAdd
  \/ ClickRemoveLast

SpecAuto == Init /\ [][NextAuto]_vars /\ WF_vars(TimerFires)

(* The page with every button, where a timer that setTimeout has scheduled   *)
(* and nothing has cleared does fire.                                        *)

SpecResume == Init /\ [][Next]_vars /\ WF_vars(TimerFires)

(* The handlers called directly *)

CallIds == 1..MaxId

CallToggle ==
  \E id \in CallIds : Commit(toggleItem(St, id), timer, "toggleItem", "toggleItem")

CallAdd ==
  /\ Len(items) < MaxLen
  /\ Commit(addItem(St, now), timer, "addItem", "addItem")

CallRemove ==
  \E id \in CallIds : Commit(removeItem(St, id), timer, "removeItem", "removeItem")

CallNext == Commit(nextStep(St, pendingItems), timer, "nextStep", "nextStep")

CallPrevious == Commit(previousStep(St), timer, "previousStep", "previousStep")

CallReset == Commit(resetProcess(St), timer, "resetProcess", "resetProcess")

NextCalls ==
  \/ Tick
  \/ TimerFires
  \/ ClickMode
  \/ CallToggle
  \/ CallAdd
  \/ CallRemove
  \/ CallNext
  \/ CallPrevious
  \/ CallReset

SpecCalls == Init /\ [][NextCalls]_vars

(* getChangedIds applied to a pair of lists with unique ids *)

ArgRecords ==
  { Item(i, ItemName(i), sel) : i \in 1..MaxArgId, sel \in BOOLEAN }

UniqueIds(list) ==
  \A i, j \in 1..Len(list) : list[i].id = list[j].id => i = j

ArgLists ==
  { l \in UNION { [1..n -> ArgRecords] : n \in 0..MaxArgId } : UniqueIds(l) }

InitDiff ==
  /\ InitState
  /\ inPrev \in ArgLists
  /\ inNext \in ArgLists
  /\ outChanged = Null

CallGetChangedIds ==
  /\ outChanged = Null
  /\ outChanged' = Some(getChangedIds(inPrev, inNext))
  /\ op' = "getChangedIds"
  /\ UNCHANGED <<reactVars, timer, now, calls, startItems, startDiff,
                 watcherRan, startOp, before, inPrev, inNext>>

NextDiff == CallGetChangedIds

SpecDiff == InitDiff /\ [][NextDiff]_vars

---------------------------------------------------------------------------
(* Properties *)

MutationOps == {"toggleItem", "addItem", "removeItem"}
AdvanceOps == {"nextStep", "timer"}

\* C1: while a cycle is active, a call of toggleItem, addItem or removeItem
\* changes nothing (List, step, mode, active, pendingItems, phase flags, the
\* stored ChangeSet, the scheduled timer), and the stored ChangeSet is never
\* replaced while a cycle is active: startProcess runs only when inactive.
C1_MutationWhileActiveIsNoOp ==
  /\ [][isProcessActive /\ op' \in MutationOps
          => UNCHANGED <<reactVars, timer>>]_vars
  /\ [][isProcessActive => diff' = diff]_vars
  /\ [](isProcessActive => step \in 1..MAX_STEP)

C1_Witness ==
  /\ isProcessActive /\ step = 3 /\ op = "removeItem"
  /\ diff.changedIds # <<>>

\* C2: in the render phase (step 1..3) List is the ChangeSet's previous list,
\* in the commit phase (step 4..5) it is the ChangeSet's next list.
C2_ListFollowsPhase ==
  /\ step \in 1..3 => items = diff.prev
  /\ step \in 4..5 => items = diff.next

C2_Witness ==
  /\ step = 4 /\ op = "previousStep"
  /\ diff.prev # diff.next /\ items = diff.next

\* C3: start followed by exactly five advances ends with List equal to the
\* next list of the ChangeSet that start was given, and the controller Idle.
C3_FullCycle ==
  calls = FullCycle =>
    /\ items = startDiff.next
    /\ step = 0 /\ ~isProcessActive /\ pendingItems = Null

C3_Witness ==
  /\ calls = FullCycle /\ items = startDiff.next
  /\ startDiff.next # startItems

\* C4: start, three advances, three retreats: List is what it was before
\* start, step is 1, the cycle is active and pendingItems is the ChangeSet's
\* next list.
C4_RoundTrip ==
  calls = RoundTrip =>
    /\ items = startItems
    /\ step = 1 /\ isProcessActive
    /\ pendingItems = Some(startDiff.next)

C4_Witness ==
  /\ calls = RoundTrip /\ items = startItems
  /\ startDiff.next # startItems

\* C5: isProcessActive is false exactly when step is 0.
C5_ActiveIffStepNonZero == (~isProcessActive) <=> (step = 0)

C5_Witness ==
  /\ step = 0 /\ ~isProcessActive /\ op = "timer"

\* C6: step stays in 0..5, and an advance at step 5 resets to Idle with both
\* phase flags off.
C6_StepBounded ==
  /\ [](step \in 0..5)
  /\ [][step = 5 /\ op' \in AdvanceOps
          => /\ step' = 0 /\ ~isProcessActive' /\ pendingItems' = Null
             /\ ~renderPhase' /\ ~commitPhase']_vars

C6_Witness ==
  /\ step = 0 /\ op = "nextStep" /\ calls = FullCycle
  /\ ~renderPhase /\ ~commitPhase

\* C7: pendingItems is present only at steps 1..3, where it is the
\* ChangeSet's next list; start sets it and the advance from 3 to 4 clears it.
C7_PendingOnlyInRenderPhase ==
  /\ [](pendingItems # Null => step \in 1..3 /\ pendingItems = Some(diff.next))
  /\ [][op' \in MutationOps /\ ~isProcessActive
          => step' = 1 /\ pendingItems' = Some(diff'.next)]_vars
  /\ [][step = 3 /\ op' \in AdvanceOps
          => step' = 4 /\ pendingItems' = Null]_vars

C7_Witness ==
  /\ step = 4 /\ op = "nextStep" /\ pendingItems = Null
  /\ items = diff.next /\ diff.next # diff.prev

\* C8: previousStep moves step to step-1 but never below 1; at step 1 it
\* leaves step, List, pendingItems and isProcessActive as they are.
C8_RetreatClamped ==
  [][op' = "previousStep"
       => /\ step' = (IF step <= 1 THEN 1 ELSE step - 1)
          /\ step' # 0
          /\ step = 1 => UNCHANGED <<items, pendingItems, isProcessActive>>]_vars

C8_Witness ==
  /\ calls = RetreatAtOne /\ step = 1 /\ isProcessActive
  /\ pendingItems = Some(diff.next)

\* C9: previousStep at step 4 is a rollback: List becomes the ChangeSet's
\* previous list, pendingItems its next list, renderPhase on, commitPhase off.
C9_Rollback ==
  [][op' = "previousStep" /\ step = 4
       => /\ step' = 3
          /\ items' = diff.prev
          /\ pendingItems' = Some(diff.next)
          /\ renderPhase' /\ ~commitPhase'
          /\ diff' = diff]_vars

C9_Witness ==
  /\ calls = RetreatFromEffects /\ step = 3
  /\ items = diff.prev /\ pendingItems = Some(diff.next)
  /\ diff.prev # diff.next

\* C10: resetProcess in any state gives step 0, inactive, no pendingItems,
\* both phase flags off, and leaves the ChangeSet, the mode and List alone.
C10_ResetFrame ==
  [][op' = "resetProcess"
       => /\ step' = 0 /\ ~isProcessActive' /\ pendingItems' = Null
          /\ ~renderPhase' /\ ~commitPhase'
          /\ diff' = diff /\ isAutoMode' = isAutoMode /\ items' = items]_vars

C10_Witness ==
  /\ op = "resetProcess" /\ step = 0
  /\ items = diff.next /\ diff.next # diff.prev /\ diff.changedIds # <<>>

\* C11: once a cycle has been started, the diff view stays shown after
\* resetProcess and after a completed cycle: showDiff is still true in Idle.
C11_DiffStaysShown ==
  (op = "resetProcess" \/ calls = FullCycle) => showDiff

\* C12: switching the mode flips isAutoMode and leaves step, active, List,
\* pendingItems, the phase flags, showDiff and the ChangeSet unchanged.
C12_ModeSwitchFrame ==
  [][op' = "setIsAutoMode"
       => /\ isAutoMode' = ~isAutoMode
          /\ UNCHANGED <<items, pendingItems, showDiff, step, renderPhase,
                         commitPhase, diff, isProcessActive>>]_vars

C12_Witness ==
  /\ op = "setIsAutoMode" /\ isAutoMode /\ step = 3
  /\ timer # Null /\ pendingItems = Some(diff.next)

\* C13: in auto mode, with no reset and no mode switch, a started cycle is
\* driven by the timer alone through steps 1, 2, 3, 4, 5 in that order and
\* ends in Idle with List equal to the ChangeSet's next list.
C13_AutoRunsToIdle ==
  /\ isProcessActive ~> (step = 0 /\ ~isProcessActive /\ items = diff.next)
  /\ [][op' = "timer" => step' = (IF step = 5 THEN 0 ELSE step + 1)]_vars
  /\ [][isProcessActive /\ step' # step => op' = "timer"]_vars

C13_Witness ==
  /\ isAutoMode /\ op = "timer" /\ step = 0 /\ calls = FullCycle
  /\ items = startDiff.next /\ startDiff.next # startItems

\* C14: an outstanding timer always belongs to the current render of the
\* current cycle (auto mode, active, the step and pendingItems it was
\* scheduled with); resetProcess and a switch to manual cancel it; a timer
\* that fires advances the step it was scheduled in.
C14_NoStaleTimer ==
  /\ [](timer # Null =>
          /\ isAutoMode /\ isProcessActive
          /\ timer[1].step = step
          /\ timer[1].pendingItems = pendingItems)
  /\ [][op' = "resetProcess" \/ (op' = "setIsAutoMode" /\ ~isAutoMode')
          => timer' = Null]_vars
  /\ [][op' = "timer" => timer # Null /\ timer[1].step = step /\ isProcessActive]_vars

C14_Witness ==
  /\ op = "resetProcess" /\ isAutoMode /\ timer = Null
  /\ step = 0 /\ diff.changedIds # <<>>

\* C15: a timer is outstanding exactly when the mode is auto, a cycle is
\* active and step is in 1..5; in manual mode step moves only by a click.
C15_TimerIffAutoActive ==
  /\ []((timer # Null) <=> (isAutoMode /\ isProcessActive /\ step \in 1..MAX_STEP))
  /\ [][~isAutoMode /\ step' # step
          => op' \in {"nextStep", "previousStep", "resetProcess"} \cup MutationOps]_vars

C15_Witness ==
  /\ timer # Null /\ step = 5 /\ op = "setIsAutoMode"

IdsOf(list) == { list[i].id : i \in 1..Len(list) }
SeqToSet(q) == { q[i] : i \in 1..Len(q) }
SelectedOf(list, id) ==
  LET i == CHOOSE k \in 1..Len(list) : list[k].id = id IN list[i].selected

AddedIds(prev, next) == IdsOf(next) \ IdsOf(prev)
RemovedIds(prev, next) == IdsOf(prev) \ IdsOf(next)
FlippedIds(prev, next) ==
  { id \in IdsOf(prev) \cap IdsOf(next) :
      SelectedOf(prev, id) # SelectedOf(next, id) }

\* C16: for lists with unique ids, getChangedIds(prev, next) holds exactly the
\* added ids, the removed ids and the ids whose selected differs, each once.
C16_ChangedIdsExact ==
  outChanged # Null =>
    /\ SeqToSet(outChanged[1]) =
         AddedIds(inPrev, inNext) \cup RemovedIds(inPrev, inNext)
           \cup FlippedIds(inPrev, inNext)
    /\ \A i, j \in 1..Len(outChanged[1]) :
         outChanged[1][i] = outChanged[1][j] => i = j

C16_Witness ==
  /\ outChanged # Null
  /\ AddedIds(inPrev, inNext) # {}
  /\ RemovedIds(inPrev, inNext) # {}
  /\ FlippedIds(inPrev, inNext) # {}
  /\ Len(outChanged[1]) = 3

\* C17: the stored ChangeSet's changedIds are ids of its previous or of its
\* next list, in every reachable state.
C17_ChangedIdsWithinLists ==
  SeqToSet(diff.changedIds) \subseteq (IdsOf(diff.prev) \cup IdsOf(diff.next))

C17_Witness ==
  /\ op = "resetProcess" /\ step = 0 /\ ~isProcessActive
  /\ diff.changedIds # <<>>
  /\ SeqToSet(diff.changedIds) \subseteq (IdsOf(diff.prev) \cup IdsOf(diff.next))

Committing == <<"nextStep", "nextStep", "nextStep">>
BeforeCommit == {<<>>, <<"nextStep">>, <<"nextStep", "nextStep">>}

\* C18: Toggle Apple from Idle on a List that holds Apple stores a ChangeSet
\* with previous = List, next = List with only Apple's selected flipped (same
\* ids, order and names) and changedIds = {Apple's id}; List stays as it was
\* until the third advance, after which step is 4 and List is next.
C18_ToggleChangeSet ==
  /\ [][op' = "toggleItem" /\ ~isProcessActive /\ AppleId \in IdsOf(items)
          => /\ diff'.prev = items
             /\ Len(diff'.next) = Len(items)
             /\ \A i \in 1..Len(items) :
                  /\ diff'.next[i].id = items[i].id
                  /\ diff'.next[i].name = items[i].name
                  /\ diff'.next[i].selected =
                       (IF items[i].id = AppleId THEN ~items[i].selected
                                                ELSE items[i].selected)
             /\ SeqToSet(diff'.changedIds) = {AppleId}
             /\ items' = items /\ step' = 1]_vars
  /\ [](calls \in BeforeCommit => items = startItems)
  /\ [](calls = Committing => step = 4 /\ items = startDiff.next)

C18_Witness ==
  /\ calls = Committing /\ step = 4
  /\ startDiff.changedIds = <<AppleId>>
  /\ Len(startDiff.next) = Len(startItems)
  /\ items = startDiff.next /\ items # startItems

\* C19: addItem from Idle stores a ChangeSet whose next is List with one
\* record appended (selected false, id not in List) and whose changedIds is
\* exactly the new id; the commit moves the new record into List.
C19_AddAppendsFresh ==
  /\ [][op' = "addItem" /\ ~isProcessActive
          => /\ diff'.prev = items
             /\ Len(diff'.next) = Len(items) + 1
             /\ SubSeq(diff'.next, 1, Len(items)) = items
             /\ ~diff'.next[Len(items) + 1].selected
             /\ diff'.next[Len(items) + 1].id \notin IdsOf(items)
             /\ SeqToSet(diff'.changedIds) = {diff'.next[Len(items) + 1].id}]_vars
  /\ [](calls = Committing => items = startDiff.next)

RECURSIVE Without(_, _)
Without(list, id) ==
  IF list = <<>> THEN <<>>
  ELSE IF Head(list).id = id THEN Without(Tail(list), id)
  ELSE <<Head(list)>> \o Without(Tail(list), id)

\* C20: Remove Last from Idle stores a ChangeSet whose next is List without
\* the record of the removed id (the others kept in order) and whose
\* changedIds is that id; after the commit List no longer holds the id, and
\* removing the only record commits the empty list.
C20_RemoveChangeSet ==
  /\ [][op' = "removeItem" /\ ~isProcessActive /\ items # <<>>
          => /\ diff'.prev = items
             /\ diff'.next = Without(items, items[Len(items)].id)
             /\ Len(diff'.next) < Len(items)
             /\ SeqToSet(diff'.changedIds) = {items[Len(items)].id}
             /\ items' = items]_vars
  /\ [](calls = Committing
          => /\ items = startDiff.next
             /\ RemovedIds(startDiff.prev, startDiff.next) \cap IdsOf(items) = {})

C20_Witness ==
  /\ calls = Committing /\ step = 4
  /\ Len(startItems) = 1 /\ startDiff.next = <<>>
  /\ items = <<>> /\ startDiff.changedIds = <<startItems[1].id>>

\* C21: List, pendingItems (when present) and both lists of the stored
\* ChangeSet never hold two records with the same id; an add gets an id that
\* no record of List has.
C21_UniqueIdsEverywhere ==
  /\ UniqueIds(items)
  /\ pendingItems # Null => UniqueIds(pendingItems[1])
  /\ UniqueIds(diff.prev)
  /\ UniqueIds(diff.next)

\* C22: List changes only in the advance from step 3 to 4, where it becomes
\* pendingItems, and in the retreat from step 4 to 3, where it becomes the
\* ChangeSet's previous list; toggle, add, remove (with the start they
\* perform), every other advance or retreat, reset and the mode switch leave
\* List as it is.
C22_ListWrittenOnlyAtBoundary ==
  /\ [][items' # items =>
          \/ /\ op' \in AdvanceOps /\ step = 3 /\ step' = 4
             /\ pendingItems # Null /\ items' = pendingItems[1]
          \/ /\ op' = "previousStep" /\ step = 4 /\ step' = 3
             /\ items' = diff.prev]_vars
  /\ [][op' \in MutationOps \cup {"resetProcess", "setIsAutoMode"}
          => items' = items]_vars

C22_Witness ==
  /\ op = "previousStep" /\ step = 3
  /\ items = startItems /\ items # diff.next

\* C23: renderPhase is true exactly at steps 1..3, commitPhase exactly at
\* steps 4 and 5; both are false in Idle and they are never both true.
C23_PhaseFlagsTrackStep ==
  /\ renderPhase <=> step \in 1..3
  /\ commitPhase <=> step \in 4..5
  /\ step = 0 => ~renderPhase /\ ~commitPhase
  /\ ~(renderPhase /\ commitPhase)

C23_Witness ==
  /\ op = "previousStep" /\ step = 3 /\ calls # Off
  /\ renderPhase /\ ~commitPhase

\* C24: while a cycle is active the stored ChangeSet is the one its start was
\* given, with previous equal to List as it was at that start (each start
\* stores a ChangeSet computed from the current List), so a rollback never
\* restores List to a value of an earlier cycle.
C24_NoStaleChangeSet ==
  /\ [](isProcessActive => diff = startDiff /\ diff.prev = startItems)
  /\ [][op' \in MutationOps /\ ~isProcessActive
          => diff'.prev = items /\ pendingItems' = Some(diff'.next)]_vars
  /\ [][op' = "previousStep" /\ step = 4 => items' = startItems]_vars

C24_Witness ==
  /\ op = "previousStep" /\ step = 3 /\ isProcessActive
  /\ items = startItems /\ startItems # InitialItems
  /\ diff.next # diff.prev

\* C25: for the stored ChangeSet and every id of its changedIds,
\* getItemChangeType is 'added' exactly when the id is only in next, 'removed'
\* exactly when it is only in previous, 'changed' exactly when it is in both
\* with a different selected, and never null; the previous tree highlights
\* only changed ids present in previous, the new tree only those in next.
C25_ChangeTypeAgreesWithDiff ==
  /\ \A id \in SeqToSet(diff.changedIds) :
       LET type == getItemChangeType(id, diff.prev, diff.next)
       IN /\ type # Null
          /\ type = Some("added") <=> id \in AddedIds(diff.prev, diff.next)
          /\ type = Some("removed") <=> id \in RemovedIds(diff.prev, diff.next)
          /\ type = Some("changed") <=> id \in FlippedIds(diff.prev, diff.next)
  /\ SeqToSet(Highlight(diff, diff.prev))
       = SeqToSet(diff.changedIds) \cap IdsOf(diff.prev)
  /\ SeqToSet(Highlight(diff, diff.next))
       = SeqToSet(diff.changedIds) \cap IdsOf(diff.next)
  /\ \A id \in SeqToSet(Highlight(diff, diff.prev))
              \cup SeqToSet(Highlight(diff, diff.next)) :
       getItemChangeType(id, diff.prev, diff.next) # Null

C25_Witness ==
  /\ showDiff /\ op = "removeItem"
  /\ diff.changedIds # <<>>
  /\ getItemChangeType(diff.changedIds[1], diff.prev, diff.next) = Some("removed")
  /\ Highlight(diff, diff.next) = <<>>

\* C26: an advance that moves step to 2, 3 or 5 and a retreat from 5 to 4,
\* from 3 to 2 or from 2 to 1 change only step: List, pendingItems,
\* isProcessActive, the mode, the phase flags and the ChangeSet stay.
C26_OtherStepsChangeOnlyStep ==
  [][( \/ op' \in AdvanceOps /\ step' \in {2, 3, 5}
       \/ /\ op' = "previousStep"
          /\ <<step, step'>> \in {<<5, 4>>, <<3, 2>>, <<2, 1>>} )
       => UNCHANGED <<items, pendingItems, isProcessActive, isAutoMode,
                      renderPhase, commitPhase, diff>>]_vars

C26_Witness ==
  /\ op = "previousStep" /\ step = 4 /\ calls = SubSeq(RetreatFromEffects, 1, 5)
  /\ items = diff.next /\ diff.next # diff.prev /\ commitPhase

SameView(a, b) ==
  /\ a.items = b.items /\ a.pendingItems = b.pendingItems /\ a.step = b.step
  /\ a.renderPhase = b.renderPhase /\ a.commitPhase = b.commitPhase

\* C27: after an advance from step 3, a retreat gives back the state the
\* advance started in (List, pendingItems, step, phase flags); after a retreat
\* from step 4, an advance gives back the state the retreat started in, so a
\* re-commit writes the ChangeSet's next list again; this holds however often
\* the boundary is crossed.
C27_BoundaryReversible ==
  /\ [][op' \in AdvanceOps /\ step = 3
          => SameView(previousStep(St'), St)]_vars
  /\ [][op' = "previousStep" /\ step = 4
          => /\ SameView(nextStep(St', pendingItems'), St)
             /\ nextStep(St', pendingItems').items = diff.next]_vars
  /\ [](calls \in {SubSeq(Recross, 1, 5), Recross}
          => /\ step = 4 /\ items = startDiff.next /\ pendingItems = Null
             /\ commitPhase /\ ~renderPhase)
  /\ [](calls \in {SubSeq(Recross, 1, 4), SubSeq(Recross, 1, 6)}
          => /\ step = 3 /\ items = startItems
             /\ pendingItems = Some(startDiff.next)
             /\ renderPhase /\ ~commitPhase)

C27_Witness ==
  /\ calls = Recross /\ step = 4
  /\ items = startDiff.next /\ startDiff.next # startItems

\* C28: resetProcess leaves List as it is: at steps 1..3 List stays the
\* ChangeSet's previous list (the value before the start) and the pending
\* list is dropped and not applied while Idle; at steps 4 and 5 List stays
\* the ChangeSet's next list; the next mutation is computed from that List.
C28_ResetKeepsList ==
  /\ [][op' = "resetProcess"
          => /\ items' = items /\ pendingItems' = Null
             /\ step \in 1..3 => items' = diff.prev /\ items' = startItems
             /\ step \in 4..5 => items' = diff.next]_vars
  /\ [][~isProcessActive /\ ~isProcessActive' => items' = items]_vars
  /\ [][op' \in MutationOps /\ ~isProcessActive => diff'.prev = items]_vars

C28_Witness ==
  /\ op = "resetProcess" /\ step = 0 /\ pendingItems = Null
  /\ items = diff.prev /\ items = startItems /\ diff.next # diff.prev

\* C29: in Idle (step 0, inactive) Next Step and Previous Step are disabled
\* and no timer is outstanding, so no advance, retreat or timer firing
\* changes step, List or pendingItems there; step leaves 0 only by toggle,
\* add or remove, whose start moves it to 1 and makes the cycle active.
C29_IdleLeftOnlyByStart ==
  /\ [](step = 0 /\ ~isProcessActive
          => NextDisabled /\ PreviousDisabled /\ timer = Null)
  /\ [][step = 0 /\ ~isProcessActive
          /\ op' \in {"nextStep", "previousStep", "timer"}
          => UNCHANGED <<step, items, pendingItems>>]_vars
  /\ [][step = 0 /\ ~isProcessActive /\ step' # step
          => op' \in MutationOps /\ step' = 1 /\ isProcessActive']_vars

C29_Witness ==
  /\ op \in MutationOps /\ step = 1 /\ isProcessActive /\ ~isAutoMode
  /\ calls = <<>> /\ startItems # InitialItems

\* C30: step never exceeds 5, so the step watcher's condition is false after
\* every event and the watcher never calls resetProcess; the advance at step
\* 5 itself goes to Idle, and an active cycle ends only by that advance or by
\* Reset, so a cycle started after a completed one is not reset by a late
\* watcher.
C30_WatcherNeverFires ==
  /\ [](step <= MAX_STEP /\ ~watcherRan)
  /\ [][step = 5 /\ op' \in AdvanceOps
          => step' = 0 /\ ~isProcessActive' /\ ~watcherRan']_vars
  /\ [][isProcessActive /\ ~isProcessActive'
          => op' = "resetProcess" \/ (op' \in AdvanceOps /\ step = 5)]_vars

C30_Witness ==
  /\ op \in AdvanceOps /\ calls = FullCycle /\ step = 0
  /\ ~isProcessActive /\ ~watcherRan /\ items = startDiff.next

\* C31: toggleItem or removeItem called from Idle with an id that List does
\* not hold (Toggle Apple after record 1 was removed) still starts a cycle:
\* step 1, active, next equal to previous equal to List, changedIds empty;
\* List stays as it was at every step of that cycle, the commit included.
C31_AbsentIdStartsEmptyCycle ==
  /\ [][( /\ op' \in {"toggleItem", "removeItem"} /\ ~isProcessActive
          /\ IdsOf(items) \cap CallIds = {} )
          => /\ step' = 1 /\ isProcessActive'
             /\ diff'.prev = items /\ diff'.next = items
             /\ diff'.changedIds = <<>>
             /\ pendingItems' = Some(items)
             /\ items' = items]_vars
  /\ [](isProcessActive /\ startDiff.next = startDiff.prev
          => items = startItems)
  /\ [](calls \in {Committing, FullCycle} /\ startDiff.next = startDiff.prev
          => items = startItems)

C31_Witness ==
  /\ calls = Committing /\ step = 4 /\ op \in AdvanceOps
  /\ AppleId \notin IdsOf(startItems) /\ startItems # <<>>
  /\ startDiff.next = startDiff.prev /\ startDiff.changedIds = <<>>
  /\ items = startItems

\* C32: Toggle Apple run through a complete cycle and then again through a
\* second complete cycle, on a List L that holds Apple: the second ChangeSet
\* is the first with previous and next swapped and the same changedIds, and
\* the second cycle ends in Idle with List equal to L.
C32_ToggleTwiceRestores ==
  before # Null /\ AppleId \in IdsOf(before[1].items) =>
    /\ before[1].diff.prev = before[1].items
    /\ startDiff.prev = before[1].diff.next
    /\ startDiff.next = before[1].diff.prev
    /\ startDiff.changedIds = before[1].diff.changedIds
    /\ startDiff.changedIds = <<AppleId>>
    /\ calls = FullCycle
         => step = 0 /\ ~isProcessActive /\ items = before[1].items

C32_Witness ==
  /\ before # Null /\ calls = FullCycle /\ step = 0
  /\ AppleId \in IdsOf(before[1].items)
  /\ items = before[1].items /\ items # startDiff.prev

\* C33: a switch to auto inside a cycle changes neither step nor List nor the
\* ChangeSet and schedules the timer for the current step; from every active
\* state in auto mode (one reached by a rollback included), unless Reset is
\* clicked or the mode is switched back, the timer drives the cycle to Idle
\* with List equal to the ChangeSet's next list.
C33_AutoResumes ==
  /\ [][op' = "setIsAutoMode" /\ isAutoMode' /\ isProcessActive
          => /\ UNCHANGED <<step, items, pendingItems, diff, isProcessActive>>
             /\ timer' = Some([pendingItems |-> pendingItems, step |-> step])]_vars
  /\ (isAutoMode /\ isProcessActive) ~>
       \/ step = 0 /\ ~isProcessActive /\ items = diff.next
       \/ ~isAutoMode
       \/ op = "resetProcess"
  /\ [](calls = Resume
          => step = 0 /\ ~isProcessActive /\ items = startDiff.next)

C33_Witness ==
  /\ calls = Resume /\ op = "timer" /\ isAutoMode
  /\ step = 0 /\ ~isProcessActive
  /\ items = startDiff.next /\ startDiff.next # startItems

=============================================================================
